---- MODULE Spec2Model ----
(***************************************************************************)
(* Model of rustc_wrapper (src/rustc_wrapper/src/main.rs): a process that  *)
(* collects its argument vector, calls rustc_driver::run_compiler with a   *)
(* Callbacks implementation (Calls) whose config hook is empty, and        *)
(* returns from main.  The compiler driver is an external crate; it is     *)
(* modelled as an environment that may do whatever the call's signature    *)
(* lets it do while the call is in progress.                               *)
(***************************************************************************)
EXTENDS Integers, Sequences, FiniteSets, TLC

\* Longest argument vector the operating system supplies in the model.
MaxArgs == 3
\* Most invocations of the hook the driver makes during one call.
MaxHookCalls == 2

\* Option::None, as passed for the two optional parameters of run_compiler.
None == "None"

\* Operating-system strings (byte sequences) an argument can be: "a", "-a",
\* "e-acute" (two-byte UTF-8), a lone 0xFF and a truncated two-byte sequence.
ArgPool == { <<97>>, <<45, 97>>, <<195, 169>>, <<255>>, <<195>> }

\* The argument vectors a process can be started with (argv[0] first).
ArgVectors == UNION { [1..n -> ArgPool] : n \in 1..MaxArgs }

\* The configuration contexts the driver can build (interface::Config).
Contexts == [opts : {"O0", "O2"}, input : {"file", "stdin"}]

\* The unit struct Calls: it has no fields.
Calls == << >>

VARIABLES
    argv,          \* the argument vector of the process, as the OS holds it
    pc,            \* position of main: start, collected, in_engine, returned, exited
    args,          \* the local `args` of main (Vec<String>)
    calls,         \* the Calls value main lends to the driver
    runCalls,      \* the calls of run_compiler made so far, with their parameters
    epc,           \* position of the driver: idle, running, in_hook, done
    compiling,     \* the driver has started compiling
    config,        \* the driver's configuration context
    configBefore,  \* the context as it was when the hook was last invoked
    callsBefore,   \* the Calls value as it was when the hook was last invoked
    hookCalls,     \* number of invocations of Calls::config
    hookPhases,    \* for each invocation, whether compilation had started
    shimRefs,      \* references to the context held by code of the wrapper
    shimAccesses,  \* reads and writes of the context made by code of the wrapper
    engineResult,  \* outcome of run_compiler: none, Ok, Err, Panic
    engineDiag,    \* what the driver wrote to the standard error stream
    stderr,        \* the standard error stream of the process
    exitStatus     \* << >> while running, <<code>> once the process has exited

vars == << argv, pc, args, calls, runCalls, epc, compiling, config,
           configBefore, callsBefore, hookCalls, hookPhases, shimRefs,
           shimAccesses, engineResult, engineDiag, stderr, exitStatus >>

----------------------------------------------------------------------------
\* std::env::args(): each OS string is checked to be valid UTF-8.

InRange(b, i, lo, hi) == i <= Len(b) /\ b[i] >= lo /\ b[i] <= hi

Cont(b, i) == InRange(b, i, 128, 191)

RECURSIVE from_utf8(_, _)
from_utf8(b, i) ==
    IF i > Len(b) THEN TRUE
    ELSE LET x == b[i] IN
         IF x <= 127 THEN from_utf8(b, i + 1)
         ELSE IF x >= 194 /\ x <= 223
              THEN Cont(b, i + 1) /\ from_utf8(b, i + 2)
         ELSE IF x = 224
              THEN InRange(b, i + 1, 160, 191) /\ Cont(b, i + 2)
                   /\ from_utf8(b, i + 3)
         ELSE IF (x >= 225 /\ x <= 236) \/ x = 238 \/ x = 239
              THEN Cont(b, i + 1) /\ Cont(b, i + 2) /\ from_utf8(b, i + 3)
         ELSE IF x = 237
              THEN InRange(b, i + 1, 128, 159) /\ Cont(b, i + 2)
                   /\ from_utf8(b, i + 3)
         ELSE IF x = 240
              THEN InRange(b, i + 1, 144, 191) /\ Cont(b, i + 2)
                   /\ Cont(b, i + 3) /\ from_utf8(b, i + 4)
         ELSE IF x >= 241 /\ x <= 243
              THEN Cont(b, i + 1) /\ Cont(b, i + 2) /\ Cont(b, i + 3)
                   /\ from_utf8(b, i + 4)
         ELSE IF x = 244
              THEN InRange(b, i + 1, 128, 143) /\ Cont(b, i + 2)
                   /\ Cont(b, i + 3) /\ from_utf8(b, i + 4)
         ELSE FALSE

\* OsString::into_string: the same bytes as a String, or an error.
into_string(os) ==
    IF from_utf8(os, 1) THEN [ok |-> TRUE, val |-> os]
                        ELSE [ok |-> FALSE, val |-> os]

\* A plausible slip: the program name is dropped (args().skip(1)).
env_args_collect_SkipFirst(v) ==
    IF \A i \in 1..Len(v) : into_string(v[i]).ok
    THEN [ok |-> TRUE, vec |-> Tail([i \in 1..Len(v) |-> into_string(v[i]).val])]
    ELSE [ok |-> FALSE, vec |-> << >>]

\* std::env::args().collect(): the arguments in order as Strings; the
\* iterator panics on an argument that is not valid Unicode.
env_args_collect(v) ==
    IF \A i \in 1..Len(v) : into_string(v[i]).ok
    THEN [ok |-> TRUE, vec |-> [i \in 1..Len(v) |-> into_string(v[i]).val]]
    ELSE [ok |-> FALSE, vec |-> << >>]

\* A plausible slip: an emitter is supplied for the fourth parameter.
run_compiler_call_WithEmitter(a, c) ==
    [args |-> a, callbacks |-> c, file_loader |-> None, emitter |-> "Some"]

\* The parameters of rustc_driver::run_compiler(&args, &mut Calls, None, None).
run_compiler_call(a, c) ==
    [args |-> a, callbacks |-> c, file_loader |-> None, emitter |-> None]

\* A plausible slip: the hook alters a field of the context.
Config_Mutating(self, cfg) ==
    [self |-> self, config |-> [cfg EXCEPT !.opts = "O2"],
     retained |-> {}, accesses |-> <<"write">>]

\* A plausible slip: the hook keeps the reference it was given.
Config_Retaining(self, cfg) ==
    [self |-> self, config |-> cfg, retained |-> {"config"}, accesses |-> << >>]

\* Calls::config(&mut self, config: &mut interface::Config) { }: the body is
\* empty, so self and the context are as they were, no reference is kept
\* and the context is neither read nor written.
Config(self, cfg) ==
    [self |-> self, config |-> cfg, retained |-> {}, accesses |-> << >>]

\* The status of a process whose main() returns (): the value of the
\* statement on line 17 is discarded, so the status does not depend on it.
MainExitStatus(result) == 0

\* The status of a process whose main thread panics.
PanicExitStatus(result) == 101

\* The status the driver's outcome stands for: EXIT_SUCCESS for Ok,
\* EXIT_FAILURE for Err, the panic status for a panic.
EngineStatus(result) ==
    CASE result = "Ok"    -> 0
      [] result = "Err"   -> 1
      [] result = "Panic" -> 101

\* What the driver writes to the standard error stream for an outcome.
EngineDiagnostic(result) ==
    CASE result = "Ok"    -> << >>
      [] result = "Err"   -> << [by |-> "engine", msg |-> "error"] >>
      [] result = "Panic" -> << [by |-> "engine", msg |-> "panic"] >>

----------------------------------------------------------------------------
Init ==
    /\ argv \in ArgVectors
    /\ pc = "start"
    /\ args = << >>
    /\ calls = Calls
    /\ runCalls = << >>
    /\ epc = "idle"
    /\ compiling = FALSE
    /\ config = None
    /\ configBefore = None
    /\ callsBefore = Calls
    /\ hookCalls = 0
    /\ hookPhases = << >>
    /\ shimRefs = {}
    /\ shimAccesses = << >>
    /\ engineResult = "none"
    /\ engineDiag = << >>
    /\ stderr = << >>
    /\ exitStatus = << >>

\* main, line 16: let args: Vec<_> = std::env::args().collect();
MainCollectArgs ==
    /\ pc = "start"
    /\ LET r == env_args_collect(argv) IN
       IF r.ok
       THEN /\ args' = r.vec
            /\ pc' = "collected"
            /\ UNCHANGED << stderr, exitStatus >>
       ELSE /\ args' = << >>
            /\ pc' = "exited"
            /\ stderr' = Append(stderr, [by |-> "shim", msg |-> "panic"])
            /\ exitStatus' = << PanicExitStatus("none") >>
    /\ UNCHANGED << argv, calls, runCalls, epc, compiling, config,
                    configBefore, callsBefore, hookCalls, hookPhases,
                    shimRefs, shimAccesses, engineResult, engineDiag >>

\* main, line 17: the call of run_compiler is entered.
MainCallRunCompiler ==
    /\ pc = "collected"
    /\ pc' = "in_engine"
    /\ runCalls' = Append(runCalls, run_compiler_call(args, calls))
    /\ epc' = "running"
    /\ UNCHANGED << argv, args, calls, compiling, config, configBefore,
                    callsBefore, hookCalls, hookPhases, shimRefs,
                    shimAccesses, engineResult, engineDiag, stderr,
                    exitStatus >>

\* The driver builds a context and invokes callbacks.config(&mut config).
EngineInvokeHook ==
    /\ pc = "in_engine"
    /\ epc = "running"
    /\ hookCalls < MaxHookCalls
    /\ \E c \in Contexts :
          /\ config' = c
          /\ configBefore' = c
    /\ callsBefore' = calls
    /\ epc' = "in_hook"
    /\ shimRefs' = {"config"}
    /\ UNCHANGED << argv, pc, args, calls, runCalls, compiling, hookCalls,
                    hookPhases, shimAccesses, engineResult, engineDiag,
                    stderr, exitStatus >>

\* Calls::config, lines 22-25: the hook runs and returns to the driver.
CallsConfig ==
    /\ epc = "in_hook"
    /\ LET r == Config(calls, config) IN
          /\ calls' = r.self
          /\ config' = r.config
          /\ shimRefs' = r.retained
          /\ shimAccesses' = shimAccesses \o r.accesses
    /\ hookCalls' = hookCalls + 1
    /\ hookPhases' = Append(hookPhases, compiling)
    /\ epc' = "running"
    /\ UNCHANGED << argv, pc, args, runCalls, compiling, configBefore,
                    callsBefore, engineResult, engineDiag, stderr,
                    exitStatus >>

\* The driver starts compiling.
EngineCompile ==
    /\ pc = "in_engine"
    /\ epc = "running"
    /\ ~compiling
    /\ compiling' = TRUE
    /\ UNCHANGED << argv, pc, args, calls, runCalls, epc, config,
                    configBefore, callsBefore, hookCalls, hookPhases,
                    shimRefs, shimAccesses, engineResult, engineDiag,
                    stderr, exitStatus >>

\* run_compiler returns Ok(()) or Err(ErrorReported); main drops the value.
EngineReturn ==
    /\ pc = "in_engine"
    /\ epc = "running"
    /\ \E r \in {"Ok", "Err"} :
          /\ engineResult' = r
          /\ engineDiag' = EngineDiagnostic(r)
          /\ stderr' = stderr \o EngineDiagnostic(r)
    /\ epc' = "done"
    /\ pc' = "returned"
    /\ UNCHANGED << argv, args, calls, runCalls, compiling, config,
                    configBefore, callsBefore, hookCalls, hookPhases,
                    shimRefs, shimAccesses, exitStatus >>

\* run_compiler panics: main has no catch_unwind, the panic ends the process.
EnginePanic ==
    /\ pc = "in_engine"
    /\ epc = "running"
    /\ engineResult' = "Panic"
    /\ engineDiag' = EngineDiagnostic("Panic")
    /\ stderr' = stderr \o EngineDiagnostic("Panic")
    /\ epc' = "done"
    /\ pc' = "exited"
    /\ exitStatus' = << PanicExitStatus("Panic") >>
    /\ UNCHANGED << argv, args, calls, runCalls, compiling, config,
                    configBefore, callsBefore, hookCalls, hookPhases,
                    shimRefs, shimAccesses >>

\* main, line 18: main returns () and the process exits.
MainReturn ==
    /\ pc = "returned"
    /\ pc' = "exited"
    /\ exitStatus' = << MainExitStatus(engineResult) >>
    /\ UNCHANGED << argv, args, calls, runCalls, epc, compiling, config,
                    configBefore, callsBefore, hookCalls, hookPhases,
                    shimRefs, shimAccesses, engineResult, engineDiag,
                    stderr >>

Next ==
    \/ MainCollectArgs
    \/ MainCallRunCompiler
    \/ EngineInvokeHook
    \/ CallsConfig
    \/ EngineCompile
    \/ EngineReturn
    \/ EnginePanic
    \/ MainReturn

Spec == Init /\ [][Next]_vars

----------------------------------------------------------------------------
\* C1: when the process has exited after run_compiler produced an outcome,
\* the exit status of the process is the status that outcome stands for
\* (non-zero when run_compiler returned Err).
C1_ExitStatusIsEngineStatus ==
    (pc = "exited" /\ engineResult # "none")
        => exitStatus = << EngineStatus(engineResult) >>

\* C2: the argument sequence of every call of run_compiler is the argument
\* vector of the process: same length, same elements in the same order,
\* the invocation name at index zero.
C2_ArgsForwardedVerbatim ==
    \A k \in 1..Len(runCalls) :
        /\ Len(runCalls[k].args) = Len(argv)
        /\ \A i \in 1..Len(argv) : runCalls[k].args[i] = argv[i]

\* A call has been made with several arguments, one of them not ASCII.
C2_Witness ==
    /\ Len(runCalls) = 1
    /\ Len(argv) >= 2
    /\ argv[1] # argv[2]
    /\ \E i \in 1..Len(argv) : argv[i] = <<195, 169>>

\* C3: in every run, once the process has exited, Calls::config has been
\* invoked exactly once.
C3_ConfigInvokedExactlyOnce ==
    pc = "exited" => hookCalls = 1

\* C4: once Calls::config has returned, the context is field for field the
\* context the hook was invoked on, and the Calls value is unchanged.
C4_ConfigLeavesContextUnchanged ==
    (hookCalls > 0 /\ epc # "in_hook")
        => /\ config.opts = configBefore.opts
           /\ config.input = configBefore.input
           /\ calls = callsBefore

\* The hook has returned from a call on a context whose fields are not the
\* ones a mutation would write.
C4_Witness ==
    /\ hookCalls > 0
    /\ epc = "running"
    /\ config = [opts |-> "O0", input |-> "stdin"]

\* C5: whenever the hook has returned, code of the wrapper holds no
\* reference to the context, and no step taken outside the hook reads or
\* writes the context on the wrapper's behalf.
C5_NoReferenceRetained ==
    /\ []((hookCalls > 0 /\ epc # "in_hook") => shimRefs = {})
    /\ [][epc # "in_hook" => shimAccesses' = shimAccesses]_vars

\* The hook has held the reference, has returned, and the process has run
\* to its end.
C5_Witness ==
    /\ hookCalls > 0
    /\ pc = "exited"
    /\ config \in Contexts

\* C6: when run_compiler failed (Err or panic), the process exits with the
\* status the failure stands for and its standard error stream holds what
\* the driver wrote, nothing more and nothing less.
C6_EngineFailureUnaltered ==
    (pc = "exited" /\ engineResult \in {"Err", "Panic"})
        => /\ exitStatus = << EngineStatus(engineResult) >>
           /\ stderr = engineDiag

\* C7: the process never ends before run_compiler has been called,
\* whatever the argument vector.
C7_EngineAlwaysReached ==
    ~(pc = "exited" /\ runCalls = << >>)

\* C8: in every call of run_compiler the file loader and the emitter are
\* absent and the callbacks are the Calls value.
C8_ExtensionSlotsAbsent ==
    \A k \in 1..Len(runCalls) :
        /\ runCalls[k].file_loader = None
        /\ runCalls[k].emitter = None
        /\ runCalls[k].callbacks = Calls

\* The call of run_compiler is in progress.
C8_Witness ==
    /\ Len(runCalls) = 1
    /\ pc = "in_engine"

\* C9: run_compiler is never called twice, and a process that has exited
\* has called it exactly once.
C9_EngineInvokedExactlyOnce ==
    /\ Len(runCalls) <= 1
    /\ pc = "exited" => Len(runCalls) = 1

====
